---- MODULE Spec2Model ----
(***************************************************************************)
(* A model of the Biconomy smart-account Python library: the persistent    *)
(* Merkle store of session leaves, the UserOperation codec, the session    *)
(* validation modules and the account orchestrator.                        *)
(*                                                                         *)
(* keccak is modelled as a collision-free constructor: the digest of a     *)
(* byte string is the record [pre |-> <<its blocks>>], so two digests are  *)
(* equal exactly when their pre-images are.                                *)
(***************************************************************************)
EXTENDS Integers, Sequences, FiniteSets, TLC

VARIABLES
    leaves,      \* PersistentMerkleTree.leaves: the hashed leaves, in order
    tree,        \* PersistentMerkleTree.tree: the reduced tree ([] or [root])
    disk,        \* the pickled record (tree, leaves) in <eth_address>.pkl
    hashOrder,   \* how the byte order of digests relates to their pre-images
    userop,      \* a UserOperation instance: its eleven attributes
    nChanges,    \* how many attribute assignments userop has seen
    account,     \* the BiconomyV2SmartAccount instance: its attributes
    deployed,    \* the chain: whether code is present at the account address
    balance,     \* the chain: the native balance of the account address
    manager,     \* the live SessionKeyManager: its attributes, or none
    files,       \* the session key storage directory: <address>.pkl files
    second,      \* a second PersistentMerkleTree on the same record, or none
    acked,       \* the hashed leaves whose add_leaf has returned
    ret          \* the last call of the running specification and its result

storeVars == <<leaves, tree, disk, hashOrder>>

codecVars == <<userop, nChanges>>

accountVars == <<account, deployed, balance>>

sessionVars == <<manager, files>>

writerVars == <<second, acked>>

vars == <<leaves, tree, disk, hashOrder, userop, nChanges, account, deployed, balance,
          manager, files, second, acked, ret>>

\* No call is in progress: the caller has taken the last result.
NoCall == [op |-> "none"]

Idle == ret = NoCall

\* The caller takes the result of the call it made; calls do not overlap. A
\* call that is modelled statement by statement returns after its last
\* statement.
Return ==
    /\ ~Idle
    /\ "pc" \in DOMAIN ret => ret.pc = "done"
    /\ ret' = NoCall
    /\ UNCHANGED <<leaves, tree, disk, hashOrder, userop, nChanges, account, deployed, balance,
                   manager, files, second, acked>>

(***************************************************************************)
(* Bounds of the store model.                                              *)
(***************************************************************************)
MaxLeaves == 4

NumLeafVals == 3

\* The raw 32-byte leaves callers hand to add_leaf / get_proof / verify_proof.
RawLeaves == {[raw |-> v] : v \in 1..NumLeafVals}

(***************************************************************************)
(* eth_utils.keccak and Python's bytes comparison.                         *)
(***************************************************************************)
keccak(blocks) == [pre |-> blocks]

\* b'' : the empty byte string root() returns for an empty tree.
EmptyBytes == <<>>

\* A total order on digests by their pre-images: leaf digests by the leaf
\* value, leaf digests below node digests, node digests lexicographically.
RECURSIVE PreimageLess(_, _)
PreimageLess(a, b) ==
    LET sa == a.pre
        sb == b.pre
    IN  IF Len(sa) # Len(sb) THEN Len(sa) < Len(sb)
        ELSE IF Len(sa) = 1 THEN sa[1].raw < sb[1].raw
        ELSE IF sa[1] # sb[1] THEN PreimageLess(sa[1], sb[1])
        ELSE IF sa[2] # sb[2] THEN PreimageLess(sa[2], sb[2])
        ELSE FALSE

\* computed_hash < sibling on bytes. The byte order of keccak digests is a
\* fixed total order unrelated to the pre-images; hashOrder picks one of two
\* opposite total orders, and the leaf values range over every permutation.
BytesLess(a, b) ==
    IF hashOrder = "asc" THEN PreimageLess(a, b) ELSE PreimageLess(b, a)

(***************************************************************************)
(* PersistentMerkleTree                                                    *)
(***************************************************************************)
\* if len(tree) % 2 == 1: tree.append(tree[-1])
PadOdd(t) == IF Len(t) % 2 = 1 THEN Append(t, t[Len(t)]) ELSE t

\* [keccak(tree[i] + tree[i + 1]) for i in range(0, len(tree), 2)]
HashPairs(t) == [i \in 1..(Len(t) \div 2) |-> keccak(<<t[2 * i - 1], t[2 * i]>>)]

\* while len(tree) > 1: ...
RECURSIVE BuildLoop(_)
BuildLoop(t) == IF Len(t) > 1 THEN BuildLoop(HashPairs(PadOdd(t))) ELSE t

\* A build that also pads and hashes a level of one node.
build_merkle_tree_dup(ls) ==
    IF ls = <<>> THEN <<>>
    ELSE IF Len(ls) = 1 THEN HashPairs(PadOdd(ls))
    ELSE BuildLoop(ls)

build_merkle_tree(ls) == IF ls = <<>> THEN <<>> ELSE BuildLoop(ls)

\* root property: self.tree[0] if self.tree else b''
root == IF tree # <<>> THEN tree[1] ELSE EmptyBytes

\* self.leaves.index(leaf_hash), 0-based; only used when leaf_hash is stored.
IndexOf(s, x) == (CHOOSE i \in 1..Len(s) : s[i] = x /\ \A j \in 1..(i - 1) : s[j] # x) - 1

Stored(leaf) == \E i \in 1..Len(leaves) : leaves[i] = keccak(<<leaf>>)

\* The while loop of get_proof; index is 0-based as in the code.
RECURSIVE ProofLoop(_, _, _)
ProofLoop(siblings, index, proof) ==
    IF Len(siblings) > 1
    THEN LET s == PadOdd(siblings)
             sib == IF index % 2 = 0 THEN s[index + 2] ELSE s[index]
         IN  ProofLoop(HashPairs(s), index \div 2, Append(proof, sib))
    ELSE proof

\* get_proof(leaf) for a stored leaf.
get_proof(leaf) == ProofLoop(leaves, IndexOf(leaves, keccak(<<leaf>>)), <<>>)

\* The for loop of verify_proof.
RECURSIVE VerifyLoop(_, _)
VerifyLoop(computed_hash, proof) ==
    IF proof = <<>> THEN computed_hash
    ELSE LET sibling == Head(proof)
         IN  VerifyLoop(IF BytesLess(computed_hash, sibling)
                        THEN keccak(<<computed_hash, sibling>>)
                        ELSE keccak(<<sibling, computed_hash>>),
                        Tail(proof))

\* A verification that only looks the leaf up and never folds the proof.
verify_proof_lookup(leaf, proof) == Stored(leaf)

verify_proof(leaf, proof) == VerifyLoop(keccak(<<leaf>>), proof) = root

\* Every node of every level of the tree over ls (the leaves included).
RECURSIVE LevelNodes(_)
LevelNodes(t) ==
    {t[i] : i \in 1..Len(t)} \cup (IF Len(t) > 1 THEN LevelNodes(HashPairs(PadOdd(t))) ELSE {})

\* The digests a caller may put in place of a proof element.
ProofValues ==
    LET leafHashes == {keccak(<<l>>) : l \in RawLeaves}
    IN  leafHashes \cup LevelNodes(leaves)

\* p with its i-th element replaced by h.
Replace(p, i, h) == [p EXCEPT ![i] = h]

\* The proofs verify_proof is called with for a leaf: the empty proof, and for
\* a stored leaf its generated proof and every single-element change of it.
ProofInputs(leaf) ==
    {<<>>} \cup
    (IF Stored(leaf)
     THEN LET p == get_proof(leaf)
          IN  {p} \cup {Replace(p, i, h) : i \in 1..Len(p), h \in ProofValues}
     ELSE {})

(***************************************************************************)
(* UserOperation and UserOperationLib (userop.py)                          *)
(*                                                                         *)
(* A str is a sequence of one-character strings, a bytes value a sequence  *)
(* of integers in 0..255. A string passed as an address is [a |-> the      *)
(* 20-byte value, cs |-> whether it is spelled with EIP-55 checksum        *)
(* letters or in lower case, wf |-> whether it is a well-formed address];  *)
(* both spellings are accepted by is_encodable("address", _).              *)
(***************************************************************************)
\* How many attribute assignments a UserOperation sees in the codec model.
MaxChanges == 2

\* The 20-byte address values the model draws.
AddressVals == {1, 2}

Addresses == [a : AddressVals, cs : BOOLEAN, wf : {TRUE}]

UintVals == {0, 5, 255, 256}

BytesVals == {<<>>, <<0>>, <<10, 255>>}

BaseFees == {0, 1, 300}

ChainIds == {1, 137}

UintFields ==
    {"nonce", "call_gas_limit", "verification_gas_limit", "pre_verification_gas",
     "max_fee_per_gas", "max_priority_fee_per_gas"}

BytesFields == {"init_code", "call_data", "paymaster_and_data", "signature"}

\* The attributes of a UserOperation.
Fields == {"sender"} \cup UintFields \cup BytesFields

FieldVals(f) ==
    IF f = "sender" THEN Addresses
    ELSE IF f \in UintFields THEN UintVals
    ELSE BytesVals

\* The operation build_user_op drafts: zero gas and fees, empty byte strings.
DraftOp(sender, nonce, init_code, call_data) ==
    [sender |-> sender, nonce |-> nonce, init_code |-> init_code,
     call_data |-> call_data, call_gas_limit |-> 0, verification_gas_limit |-> 0,
     pre_verification_gas |-> 0, max_fee_per_gas |-> 0,
     max_priority_fee_per_gas |-> 0, paymaster_and_data |-> <<>>,
     signature |-> <<>>]

HexChars == <<"0", "1", "2", "3", "4", "5", "6", "7", "8", "9", "a", "b", "c", "d", "e", "f">>

HexVal(c) == (CHOOSE i \in 1..16 : HexChars[i] = c) - 1

IsHexChar(c) == \E i \in 1..16 : HexChars[i] = c

\* The digits of hex(n) after "0x": minimal, most significant first.
RECURSIVE HexDigits(_)
HexDigits(n) ==
    IF n < 16 THEN <<HexChars[n + 1]>>
    ELSE HexDigits(n \div 16) \o <<HexChars[(n % 16) + 1]>>

\* Python's hex(n) for n >= 0.
hex(n) == <<"0", "x">> \o HexDigits(n)

\* bytes.hex() written without the zero padding of each byte.
RECURSIVE bytes_hex_unpadded(_)
bytes_hex_unpadded(b) ==
    IF b = <<>> THEN <<>>
    ELSE HexDigits(Head(b)) \o bytes_hex_unpadded(Tail(b))

\* bytes.hex(): two digits per byte.
RECURSIVE bytes_hex(_)
bytes_hex(b) ==
    IF b = <<>> THEN <<>>
    ELSE <<HexChars[(Head(b) \div 16) + 1], HexChars[(Head(b) % 16) + 1]>>
             \o bytes_hex(Tail(b))

\* The value of a digit string in base 16; -1 when it is no number.
RECURSIVE ParseHex(_, _)
ParseHex(cs, acc) ==
    IF cs = <<>> THEN acc
    ELSE IF ~IsHexChar(Head(cs)) THEN -1
    ELSE ParseHex(Tail(cs), 16 * acc + HexVal(Head(cs)))

\* int(s, 16): an optional "0x" prefix, then at least one digit; -1 stands for
\* the ValueError int raises.
int16(s) ==
    LET body == IF Len(s) >= 2 /\ s[1] = "0" /\ s[2] = "x"
                THEN SubSeq(s, 3, Len(s)) ELSE s
    IN  IF body = <<>> THEN -1 ELSE ParseHex(body, 0)

\* What bytes.fromhex yields when it raises ValueError.
BadBytes == <<-1>>

\* bytes.fromhex(cs): two digits per byte; an odd length or a non-digit raises.
fromhex(cs) ==
    IF Len(cs) % 2 = 1 \/ \E i \in 1..Len(cs) : ~IsHexChar(cs[i]) THEN BadBytes
    ELSE [i \in 1..(Len(cs) \div 2) |-> 16 * HexVal(cs[2 * i - 1]) + HexVal(cs[2 * i])]

\* s[2:]
DropTwo(s) == SubSeq(s, 3, Len(s))

\* is_encodable(typ, value) on the values of this model. The uint256 upper
\* limit 2^256 - 1 lies above every integer the model draws.
is_encodable(typ, value) ==
    IF typ = "address" THEN value.wf
    ELSE IF typ = "uint256" THEN value >= 0
    ELSE value # BadBytes

\* check_encodability over the eleven attributes, as UserOperation.__init__
\* calls it: whether the constructor accepts them.
check_encodability(o) ==
    /\ is_encodable("address", o.sender)
    /\ \A f \in UintFields : is_encodable("uint256", o[f])
    /\ \A f \in BytesFields : is_encodable("bytes", o[f])

\* UserOperation(...): the instance, or the ValueError of __init__.
UserOperation(o) ==
    IF check_encodability(o) THEN [ok |-> TRUE, op |-> o]
    ELSE [ok |-> FALSE, err |-> "ValueError"]

\* gas_price without the cap at max_fee_per_gas.
gas_price_uncapped(o, block_base_fee) ==
    IF o.max_fee_per_gas = o.max_priority_fee_per_gas THEN o.max_fee_per_gas
    ELSE o.max_priority_fee_per_gas + block_base_fee

Min(a, b) == IF a < b THEN a ELSE b

gas_price(o, block_base_fee) ==
    IF o.max_fee_per_gas = o.max_priority_fee_per_gas THEN o.max_fee_per_gas
    ELSE Min(o.max_fee_per_gas, o.max_priority_fee_per_gas + block_base_fee)

\* eth_abi's encoding of an address argument: the 20-byte value, whatever the
\* letter case of the string.
to_canonical_address(s) == s.a

\* pack: encode() of ten static values is the tuple of the values.
pack(o) ==
    <<to_canonical_address(o.sender), o.nonce, keccak(o.init_code), keccak(o.call_data),
      o.call_gas_limit, o.verification_gas_limit, o.pre_verification_gas,
      o.max_fee_per_gas, o.max_priority_fee_per_gas, keccak(o.paymaster_and_data)>>

\* A digest that leaves the chain id out.
hash_without_chain(o, entry_point_address, chain_id) ==
    keccak(<<keccak(pack(o)), to_canonical_address(entry_point_address)>>)

hash(o, entry_point_address, chain_id) ==
    keccak(<<keccak(pack(o)), to_canonical_address(entry_point_address), chain_id>>)

marshal_partial_userop(o) ==
    [sender |-> o.sender,
     nonce |-> hex(o.nonce),
     initCode |-> <<"0", "x">> \o bytes_hex(o.init_code),
     callData |-> <<"0", "x">> \o bytes_hex(o.call_data),
     paymasterAndData |-> <<"0", "x">> \o bytes_hex(o.paymaster_and_data),
     signature |-> <<"0", "x">> \o bytes_hex(o.signature)]

\* marshal_userop with the byte strings written without zero padding.
marshal_userop_unpadded(o) ==
    [sender |-> o.sender,
     nonce |-> hex(o.nonce),
     initCode |-> <<"0", "x">> \o bytes_hex_unpadded(o.init_code),
     callData |-> <<"0", "x">> \o bytes_hex_unpadded(o.call_data),
     callGasLimit |-> hex(o.call_gas_limit),
     verificationGasLimit |-> hex(o.verification_gas_limit),
     preVerificationGas |-> hex(o.pre_verification_gas),
     maxFeePerGas |-> hex(o.max_fee_per_gas),
     maxPriorityFeePerGas |-> hex(o.max_priority_fee_per_gas),
     paymasterAndData |-> <<"0", "x">> \o bytes_hex_unpadded(o.paymaster_and_data),
     signature |-> <<"0", "x">> \o bytes_hex_unpadded(o.signature)]

marshal_userop(o) ==
    [sender |-> o.sender,
     nonce |-> hex(o.nonce),
     initCode |-> <<"0", "x">> \o bytes_hex(o.init_code),
     callData |-> <<"0", "x">> \o bytes_hex(o.call_data),
     callGasLimit |-> hex(o.call_gas_limit),
     verificationGasLimit |-> hex(o.verification_gas_limit),
     preVerificationGas |-> hex(o.pre_verification_gas),
     maxFeePerGas |-> hex(o.max_fee_per_gas),
     maxPriorityFeePerGas |-> hex(o.max_priority_fee_per_gas),
     paymasterAndData |-> <<"0", "x">> \o bytes_hex(o.paymaster_and_data),
     signature |-> <<"0", "x">> \o bytes_hex(o.signature)]

\* unmarshal_userop: int(_, 16) and bytes.fromhex(_[2:]) field by field, then
\* the constructor; a ValueError of int or fromhex propagates.
unmarshal_userop(w) ==
    LET o == [sender |-> w.sender,
              nonce |-> int16(w.nonce),
              init_code |-> fromhex(DropTwo(w.initCode)),
              call_data |-> fromhex(DropTwo(w.callData)),
              call_gas_limit |-> int16(w.callGasLimit),
              verification_gas_limit |-> int16(w.verificationGasLimit),
              pre_verification_gas |-> int16(w.preVerificationGas),
              max_fee_per_gas |-> int16(w.maxFeePerGas),
              max_priority_fee_per_gas |-> int16(w.maxPriorityFeePerGas),
              paymaster_and_data |-> fromhex(DropTwo(w.paymasterAndData)),
              signature |-> fromhex(DropTwo(w.signature))]
    IN  UserOperation(o)

(***************************************************************************)
(* SessionValidationModule (utils/modules.py)                              *)
(*                                                                         *)
(* kwargs is a function from the names passed to their values. encode() of *)
(* static values is the sequence of their 32-byte words.                   *)
(***************************************************************************)
SessionVariants == {"ABI", "ERC20"}

\* required_keys, in the declared order.
RequiredKeys(variant) ==
    IF variant = "ABI"
    THEN <<"session_key", "permitted_contract", "permitted_selector",
           "permitted_value_limit", "rules_list">>
    ELSE <<"session_key", "token", "recipient", "max_amount">>

ParamNames ==
    {"session_key", "permitted_contract", "permitted_selector",
     "permitted_value_limit", "rules_list", "token", "recipient", "max_amount"}

\* The rules the model draws: dictionaries with offset, condition and value.
Rules == {[offset |-> 0, condition |-> 0, value |-> 7],
          [offset |-> 32, condition |-> 1, value |-> 9]}

\* How many rules a rules_list holds at most.
MaxRules == 2

RuleLists == UNION {[1..n -> Rules] : n \in 0..MaxRules}

\* The value passed under each name other than rules_list.
ParamValue(name) ==
    CASE name = "session_key" -> [a |-> 11]
      [] name = "permitted_contract" -> [a |-> 12]
      [] name = "permitted_selector" -> [selector |-> 13]
      [] name = "permitted_value_limit" -> [uint |-> 14]
      [] name = "token" -> [a |-> 15]
      [] name = "recipient" -> [a |-> 16]
      [] OTHER -> [uint |-> 17]

Kwargs(names, rules) ==
    [n \in names |-> IF n = "rules_list" THEN rules ELSE ParamValue(n)]

\* for key in required_keys: if key not in kwargs: raise ... reports the last
\* absent key instead of the first.
LastMissing(required, kwargs) ==
    LET absent == {i \in 1..Len(required) : required[i] \notin DOMAIN kwargs}
    IN  IF absent = {} THEN ""
        ELSE required[CHOOSE i \in absent : \A j \in absent : j <= i]

\* for key in required_keys: if key not in kwargs: raise ValueError(key);
\* "" when no key is absent.
FirstMissing(required, kwargs) ==
    LET absent == {i \in 1..Len(required) : required[i] \notin DOMAIN kwargs}
    IN  IF absent = {} THEN ""
        ELSE required[CHOOSE i \in absent : \A j \in absent : i <= j]

\* Rule records appended last rule first.
RECURSIVE EncodeRulesReversed(_)
EncodeRulesReversed(rules) ==
    IF rules = <<>> THEN <<>>
    ELSE EncodeRulesReversed(Tail(rules))
         \o <<[uint |-> Head(rules).offset], [uint |-> Head(rules).condition],
              [bytes32 |-> Head(rules).value]>>

\* The rule records appended after the header, in the order of rules_list.
RECURSIVE EncodeRules(_)
EncodeRules(rules) ==
    IF rules = <<>> THEN <<>>
    ELSE <<[uint |-> Head(rules).offset], [uint |-> Head(rules).condition],
           [bytes32 |-> Head(rules).value]>> \o EncodeRules(Tail(rules))

\* The payload of a call that passes the required-key check.
SessionKeyData(variant, kwargs) ==
    IF variant = "ABI"
    THEN <<kwargs["session_key"], kwargs["permitted_contract"],
           kwargs["permitted_selector"], kwargs["permitted_value_limit"],
           [uint |-> Len(kwargs["rules_list"])]>> \o EncodeRules(kwargs["rules_list"])
    ELSE <<kwargs["session_key"], kwargs["token"], kwargs["recipient"],
           kwargs["max_amount"]>>

\* create_session_key_data(**kwargs) on one variant: the ValueError naming a
\* key, or the payload.
create_session_key_data(variant, kwargs) ==
    LET missing == FirstMissing(RequiredKeys(variant), kwargs)
    IN  IF missing # ""
        THEN [err |-> "ValueError", key |-> missing, out |-> <<>>]
        ELSE [err |-> "", key |-> "", out |-> SessionKeyData(variant, kwargs)]

(***************************************************************************)
(* BiconomyV2SmartAccount, Bundler and Paymaster (smart_account.py,        *)
(* bundler.py, paymaster.py, utils/rpc.py)                                 *)
(*                                                                         *)
(* ABI-encoded call data, init code and signatures are records of what     *)
(* they encode. A collaborator request made during a call is logged as     *)
(* [to, method, arg]; the answers of the collaborators are inputs of the   *)
(* call. A JSON numeric value is written as a JSON number ("num"), as a     *)
(* decimal string ("dec") or as a 0x hex string ("hex").                   *)
(***************************************************************************)
\* The largest account index the model constructs accounts with.
MaxIndex == 1

PrivateKeys == {"key1", "key2"}

\* utils.constants: named addresses and hashes.
Constant(name) == [const |-> name]

ConstantAddress(name) == [a |-> Constant(name), cs |-> TRUE, wf |-> TRUE]

\* ValidationModule.get_module_address
get_module_address(validation_module) ==
    IF validation_module = "ECDSA" THEN ConstantAddress("ECDSA_OWNERSHIP_MODULE")
    ELSE ConstantAddress(validation_module)

\* _set_contract_instances: the entry point of the chain.
EntryPoint(chain_id) ==
    IF chain_id = 88888 \/ chain_id = 88880
    THEN ConstantAddress("ENTRY_POINT_CHILIZ_MAINNET_TESTNET")
    ELSE ConstantAddress("ENTRY_POINT_OTHER_CHAINS")

\* Account.from_key(private_key).address
get_eoa_address(private_key) == [a |-> [eoa_of |-> private_key], cs |-> TRUE, wf |-> TRUE]

\* Contract.encode_abi(fn_name, args): the bytes of a call, as the pair of
\* what they encode.
encode_abi(fn_name, args) == <<fn_name, args>>

\* _get_module_setup_data for the ECDSA module (the other modules raise).
get_module_setup_data(eoa_address) == encode_abi("initForSmartAccount", <<eoa_address.a>>)

\* A salt that leaves the index out.
Salt_without_index(sa_init_calldata, index) == keccak(<<keccak(sa_init_calldata)>>)

\* Web3.solidity_keccak(["bytes32", "uint256"], [keccak(init calldata), index])
Salt(sa_init_calldata, index) == keccak(<<keccak(sa_init_calldata), index>>)

\* get_smart_account_address: the CREATE2 address of the account proxy; the
\* low 20 bytes of the digest stand for the digest.
get_smart_account_address(eoa_address, validation_module, index) ==
    LET sa_init_calldata ==
            encode_abi("init",
                       <<Constant("DEFAULT_FALLBACK_HANDLER_ADDRESS"),
                         get_module_address(validation_module).a,
                         get_module_setup_data(eoa_address)>>)
        create2_hash ==
            keccak(<<Constant("0xff"), Constant("SMART_ACCOUNT_FACTORY_V2"),
                     Salt(sa_init_calldata, index),
                     Constant("PROXY_CREATION_CODE_HASH")>>)
    IN  [a |-> [low20 |-> create2_hash], cs |-> TRUE, wf |-> TRUE]

\* The instance __init__ leaves behind when it succeeds.
NewAccount(private_key, index, has_paymaster, chain_id) ==
    [private_key |-> private_key,
     index |-> index,
     validation_module |-> "ECDSA",
     eoa_address |-> get_eoa_address(private_key),
     smart_account_address |->
         get_smart_account_address(get_eoa_address(private_key), "ECDSA", index),
     paymaster |-> has_paymaster,
     chain_id |-> chain_id]

\* ---- the answers of the collaborators ----
JsonFormats == {"num", "dec", "hex"}

\* int(x) of a JSON value: a number or a decimal string parses, a 0x string
\* raises ValueError.
int_parses(t) == t # "hex"

\* The gas numbers an estimation answers with.
EstimateNumbers ==
    {[callGasLimit |-> 21, verificationGasLimit |-> 22, preVerificationGas |-> 23,
      maxFeePerGas |-> 24, maxPriorityFeePerGas |-> 25],
     [callGasLimit |-> 21, verificationGasLimit |-> 22, preVerificationGas |-> 0,
      maxFeePerGas |-> 24, maxPriorityFeePerGas |-> 0]}

\* What the bundler answers to eth_estimateUserOperationGas: a transport
\* failure, a JSON-RPC error object, or a result whose gas limits are written
\* in one format and whose fee values in another.
EstimateAnswers ==
    {[kind |-> k, limits |-> "num", fees |-> "num",
      n |-> CHOOSE x \in EstimateNumbers : x.preVerificationGas > 0] :
        k \in {"http_error", "error"}}
    \cup [kind : {"result"}, limits : JsonFormats, fees : JsonFormats, n : EstimateNumbers]

\* What the paymaster answers to pm_sponsorUserOperation.
SponsorAnswers ==
    {[kind |-> k, fmt |-> "num"] : k \in {"http_error", "error"}}
    \cup [kind : {"result"}, fmt : JsonFormats]

SponsorNumbers ==
    [paymasterAndData |-> Constant("sponsor payload"), callGasLimit |-> 31,
     verificationGasLimit |-> 32, preVerificationGas |-> 33]

\* What the bundler answers to eth_sendUserOperation.
SendAnswers == {"http_error", "error", "result"}

\* The nonces the entry point reports.
ChainNonces == {0, 5}

Answers == [est : EstimateAnswers, pm : SponsorAnswers, send : SendAnswers,
            nonce : ChainNonces]

\* ---- results of (parts of) a call ----
Call(to, method, arg) == [to |-> to, method |-> method, arg |-> arg]

\* The call raised err after making the requests in calls.
Raised(calls, err) == [calls |-> calls, err |-> err, out |-> <<>>, unparsed |-> {}]

\* The call returned out; unparsed names the attributes of a returned
\* operation that hold a str where an int is expected.
Returned(calls, out, unparsed) ==
    [calls |-> calls, err |-> "", out |-> out, unparsed |-> unparsed]

LimitFields == {"call_gas_limit", "verification_gas_limit", "pre_verification_gas"}

\* marshal_partial_userop at the level of the account: the six attributes a
\* partial request carries.
PartialView(o) ==
    [sender |-> o.sender, nonce |-> o.nonce, init_code |-> o.init_code,
     call_data |-> o.call_data, paymaster_and_data |-> o.paymaster_and_data,
     signature |-> o.signature]

\* _sign_hash
sign_hash(self, digest) == [signed |-> digest, key |-> self.private_key]

\* encode(["bytes", "address"], [signature, module address])
ModuleSignature(self, digest) ==
    [sig |-> sign_hash(self, digest),
     module |-> get_module_address(self.validation_module).a]

\* get_nonce(key)
get_nonce(self, key, answers) ==
    IF key < 0 THEN Raised(<<>>, "ValueError")
    ELSE Returned(<<Call("node", "getNonce", <<self.smart_account_address, key>>)>>,
                  answers.nonce, {})

\* estimate_userop_gas on the answer: _send_json_rpc_request raises on a
\* non-200 answer and returns an error object, on which the key lookup
\* raises; int() of the two fee values.
estimate_userop_gas(calls, answer) ==
    IF answer.kind = "http_error" THEN Raised(calls, "Exception")
    ELSE IF answer.kind = "error" THEN Raised(calls, "KeyError")
    ELSE IF ~int_parses(answer.fees) THEN Raised(calls, "ValueError")
    ELSE Returned(calls, answer.n, IF answer.limits = "num" THEN {} ELSE LimitFields)

\* A sponsor branch that hands back zero gas limits and no payload.
sponsor_user_operation_zeroed(calls, answer) ==
    IF answer.kind = "http_error" THEN Raised(calls, "Exception")
    ELSE IF answer.kind = "error" THEN Raised(calls, "KeyError")
    ELSE IF ~int_parses(answer.fmt) THEN Raised(calls, "ValueError")
    ELSE Returned(calls,
                  [paymasterAndData |-> <<>>, callGasLimit |-> 0,
                   verificationGasLimit |-> 0, preVerificationGas |-> 0],
                  {})

\* The sponsor branch of build_user_op on the answer of the paymaster.
sponsor_user_operation(calls, answer) ==
    IF answer.kind = "http_error" THEN Raised(calls, "Exception")
    ELSE IF answer.kind = "error" THEN Raised(calls, "KeyError")
    ELSE IF ~int_parses(answer.fmt) THEN Raised(calls, "ValueError")
    ELSE Returned(calls, SponsorNumbers, {})

\* build_user_op(nonce, init_code, call_data); nonce is [given, v].
build_user_op(self, nonce, init_code, call_data, answers) ==
    LET n == IF nonce.given THEN Returned(<<>>, nonce.v, {}) ELSE get_nonce(self, 0, answers)
    IN  IF n.err # "" THEN n
        ELSE
        LET made == UserOperation(DraftOp(self.smart_account_address, n.out, init_code, call_data))
        IN  IF ~made.ok THEN Raised(n.calls, "ValueError")
            ELSE
            LET draft == [made.op EXCEPT
                              !.signature = ModuleSignature(self, Constant("DUMMY_DATA_HASH"))]
                est == estimate_userop_gas(
                           Append(n.calls, Call("bundler", "eth_estimateUserOperationGas",
                                                PartialView(draft))),
                           answers.est)
            IN  IF est.err # "" THEN est
                ELSE
                LET priced == [draft EXCEPT
                                   !.max_fee_per_gas = est.out.maxFeePerGas,
                                   !.max_priority_fee_per_gas = est.out.maxPriorityFeePerGas]
                IN  IF self.paymaster
                    THEN LET sp == sponsor_user_operation(
                                       Append(est.calls, Call("paymaster", "pm_sponsorUserOperation",
                                                              PartialView(priced))),
                                       answers.pm)
                         IN  IF sp.err # "" THEN sp
                             ELSE Returned(sp.calls,
                                      [priced EXCEPT
                                           !.paymaster_and_data = sp.out.paymasterAndData,
                                           !.pre_verification_gas = sp.out.preVerificationGas,
                                           !.verification_gas_limit = sp.out.verificationGasLimit,
                                           !.call_gas_limit = sp.out.callGasLimit,
                                           !.signature = <<>>],
                                      {})
                    ELSE Returned(est.calls,
                             [priced EXCEPT
                                  !.pre_verification_gas = est.out.preVerificationGas,
                                  !.verification_gas_limit = est.out.verificationGasLimit,
                                  !.call_gas_limit = est.out.callGasLimit,
                                  !.signature = <<>>],
                             est.unparsed)

\* A sign_userop that asks the chain id and leaves the signature as it is.
sign_userop_skipped(self, calls, o, unparsed) ==
    LET asked == Append(calls, Call("node", "eth_chainId", <<>>))
    IN  IF unparsed # {} THEN Raised(asked, "EncodingError")
        ELSE Returned(asked, o, {})

\* sign_userop: the chain id is read from the node, then the digest is
\* encoded (which raises on an attribute that is no integer) and signed.
sign_userop(self, calls, o, unparsed) ==
    LET asked == Append(calls, Call("node", "eth_chainId", <<>>))
    IN  IF unparsed # {} THEN Raised(asked, "EncodingError")
        ELSE Returned(asked,
                 [o EXCEPT !.signature =
                      ModuleSignature(self, hash(o, EntryPoint(self.chain_id), self.chain_id))],
                 {})

\* Paymaster.sponsor_user_operation as a method: the request, and whatever
\* _send_json_rpc_request returns, an error object included.
paymaster_sponsor_user_operation(o, kind) ==
    LET asked == <<Call("paymaster", "pm_sponsorUserOperation", PartialView(o))>>
    IN  IF kind = "http_error" THEN Raised(asked, "Exception")
        ELSE IF kind = "error" THEN Returned(asked, [kind |-> "error object"], {})
        ELSE Returned(asked, SponsorNumbers, {})

\* send_userop: marshal_userop (hex() raises on a str), then the request; an
\* error object is returned like a result.
send_userop(calls, o, unparsed, answer) ==
    IF unparsed # {} THEN Raised(calls, "TypeError")
    ELSE LET asked == Append(calls, Call("bundler", "eth_sendUserOperation", o))
         IN  IF answer = "http_error" THEN Raised(asked, "Exception")
             ELSE IF answer = "error" THEN Returned(asked, [kind |-> "error object"], {})
             ELSE Returned(asked, [kind |-> "userop hash"], {})

\* get_nonce(nonce_key), build_user_op, sign_userop, send_userop in a row, as
\* send_eth and deploy_smart_account end.
BuildSignSend(self, calls, nonce_key, init_code, call_data, answers) ==
    LET n == get_nonce(self, nonce_key, answers)
    IN  IF n.err # "" THEN Raised(calls \o n.calls, n.err)
        ELSE
        LET b == build_user_op(self, [given |-> TRUE, v |-> n.out], init_code, call_data, answers)
        IN  IF b.err # "" THEN Raised(calls \o n.calls \o b.calls, b.err)
            ELSE
            LET sg == sign_userop(self, calls \o n.calls \o b.calls, b.out, b.unparsed)
            IN  IF sg.err # "" THEN sg
                ELSE send_userop(sg.calls, sg.out, sg.unparsed, answers.send)

\* The first check of send_eth with <= weakened to <.
amount_rejected_negative_only(amount_wei) == amount_wei < 0

\* if amount_wei <= 0 or not isinstance(amount_wei, int)
amount_rejected(amount_wei) == amount_wei <= 0

\* A balance check that lets every amount through.
exceeds_balance_never(amount_wei, sa_balance) == FALSE

\* if amount_wei > sa_balance
exceeds_balance(amount_wei, sa_balance) == amount_wei > sa_balance

\* A deployment check that takes every address for deployed.
is_deployed_unchecked(code_present) == TRUE

\* is_deployed: True if get_code(address) else False
is_deployed(code_present) == IF code_present THEN TRUE ELSE FALSE

\* is_deployed: get_code on the node.
IsDeployedCall(self) == Call("node", "eth_getCode", self.smart_account_address)

\* send_eth(recipient, amount_wei, nonce_key)
send_eth(self, recipient, amount_wei, nonce_key, code_present, sa_balance, answers) ==
    IF amount_rejected(amount_wei) THEN Raised(<<>>, "ValueError")
    ELSE IF ~recipient.wf THEN Raised(<<>>, "ValueError")
    ELSE IF ~is_deployed(code_present) THEN Raised(<<IsDeployedCall(self)>>, "Exception")
    ELSE
    LET asked == <<IsDeployedCall(self),
                   Call("node", "eth_getBalance", self.smart_account_address)>>
    IN  IF exceeds_balance(amount_wei, sa_balance) THEN Raised(asked, "ValueError")
        ELSE BuildSignSend(self, asked, nonce_key, <<>>,
                           encode_abi("execute", <<recipient.a, amount_wei, <<>>>>),
                           answers)

\* deploy_smart_account(nonce_key)
deploy_smart_account(self, nonce_key, code_present, answers) ==
    IF is_deployed(code_present) THEN Raised(<<IsDeployedCall(self)>>, "Exception")
    ELSE BuildSignSend(self, <<IsDeployedCall(self)>>, nonce_key,
                       <<Constant("SMART_ACCOUNT_FACTORY_V2"),
                         encode_abi("deployCounterFactualAccount",
                                    <<get_module_address(self.validation_module).a,
                                      get_module_setup_data(self.eoa_address),
                                      self.index>>)>>,
                       <<>>, answers)

\* What the bundler answers to a status, receipt or lookup request: a
\* transport failure, an error object, or a result (null where nothing is
\* known, a pending status where the operation is not yet included).
LookupAnswers ==
    {[kind |-> k, value |-> "null"] : k \in {"http_error", "error"}}
    \cup [kind : {"result"}, value : {"null", "PENDING", "CONFIRMED"}]

\* What _send_json_rpc_request makes of an answer, after the one request.
json_rpc_result(calls, answer) ==
    IF answer.kind = "http_error" THEN Raised(calls, "Exception")
    ELSE IF answer.kind = "error" THEN Returned(calls, [kind |-> "error object"], {})
    ELSE Returned(calls, [kind |-> "result", value |-> answer.value], {})

\* A status read that asks again while the operation is pending.
get_userop_status_polling(userop_hash, answer) ==
    LET asked == <<Call("bundler", "biconomy_getUserOperationStatus", userop_hash)>>
    IN  IF answer.kind = "result" /\ answer.value = "PENDING"
        THEN json_rpc_result(asked \o asked, [answer EXCEPT !.value = "CONFIRMED"])
        ELSE json_rpc_result(asked, answer)

\* get_userop_status -> Bundler.get_user_operation_status
get_userop_status(userop_hash, answer) ==
    json_rpc_result(<<Call("bundler", "biconomy_getUserOperationStatus", userop_hash)>>,
                    answer)

\* get_userop_receipt -> Bundler.get_user_operation_receipt
get_userop_receipt(userop_hash, answer) ==
    json_rpc_result(<<Call("bundler", "eth_getUserOperationReceipt", userop_hash)>>, answer)

\* get_userop_by_hash -> Bundler.get_user_operation_by_hash: None for a null
\* result, else unmarshal_userop of what was returned, which raises KeyError
\* on an error object.
get_userop_by_hash(userop_hash, answer) ==
    LET r == json_rpc_result(<<Call("bundler", "eth_getUserOperationByHash", userop_hash)>>,
                             answer)
    IN  IF r.err = "" /\ r.out.kind = "error object" THEN Raised(r.calls, "KeyError")
        ELSE r

\* provider.eth.chain_id: a request to the node.
ChainIdCall == Call("node", "eth_chainId", <<>>)

\* BiconomyV2SmartAccount(rpc_url, bundler_url, private_key, index,
\* paymaster_url): _check_chain_ids, _set_contract_instances (which reads the
\* chain id once or twice), then _check_index, then the derived attributes.
BiconomyV2SmartAccount(private_key, index, has_paymaster, rpc_chain_id, bundler_chain_id) ==
    LET checked == <<ChainIdCall, Call("bundler", "eth_chainId", <<>>)>>
    IN  IF rpc_chain_id # bundler_chain_id THEN Raised(checked, "ValueError")
        ELSE
        LET set == checked \o (IF rpc_chain_id = 88888 THEN <<ChainIdCall>>
                                                       ELSE <<ChainIdCall, ChainIdCall>>)
        IN  IF index < 0 THEN Raised(set, "ValueError")
            ELSE Returned(set, NewAccount(private_key, index, has_paymaster, rpc_chain_id), {})

(***************************************************************************)
(* The store as its callers see it: calls that raise, and the file.        *)
(***************************************************************************)
\* A get_proof that answers an unknown leaf with an empty proof.
get_proof_or_empty(leaf) ==
    IF Stored(leaf) THEN [err |-> "", out |-> get_proof(leaf)]
    ELSE [err |-> "", out |-> <<>>]

\* get_proof(leaf) as a call: leaves.index(leaf_hash) raises ValueError when
\* the hashed leaf is not in the list, before anything else is done.
try_get_proof(leaf) ==
    IF Stored(leaf) THEN [err |-> "", out |-> get_proof(leaf)]
    ELSE [err |-> "ValueError", out |-> <<>>]

\* A save that writes an empty record.
save_tree_nothing(t, l) == [tree |-> <<>>, leaves |-> <<>>]

\* _save_tree: pickle.dump((tree, leaves)) into the file.
save_tree(t, l) == [tree |-> t, leaves |-> l]

\* A constructor that starts empty although the file exists.
load_tree_fresh(file) == [tree |-> <<>>, leaves |-> <<>>]

\* _load_tree: pickle.load gives back the pair that was dumped.
load_tree(file) == [tree |-> file.tree, leaves |-> file.leaves]

(***************************************************************************)
(* SessionKeyManager (session_key.py) over the PersistentMerkleTree of its *)
(* account. The file of an address is the entry of that address in files.  *)
(***************************************************************************)
\* How many sessions the model creates per store.
MaxSessions == 2

\* The smart account addresses managers are constructed for; the name of a
\* store file is the address it is constructed with.
ManagerAddresses == {"0xA1", "0xA2"}

\* What reading self.session_address yields in __init__: the class assigns
\* smart_account_address and session_key_storage_path and defines no
\* session_address, so the read raises AttributeError on an instance of the
\* class as written; it yields a value only where a subclass or the caller
\* has put such an attribute on the class.
Undefined == "undefined"

SessionAddressReads == {Undefined} \cup ManagerAddresses

NoManager == [live |-> FALSE]

NoFile == [absent |-> TRUE]

\* No second store has been opened on the record.
NotOpened == [open |-> FALSE]

\* PersistentMerkleTree(storage_dir, eth_address) on the file of eth_address:
\* the loaded record when the file exists, else the empty tree.
PersistentMerkleTree(file) ==
    IF file # NoFile THEN load_tree(file)
    ELSE [tree |-> build_merkle_tree(<<>>), leaves |-> <<>>]

\* SessionValidationModule.get_address
get_address(variant) ==
    IF variant = "ABI" THEN Constant("ABI_SESSION_VALIDATION_MODULE")
    ELSE Constant("ERC20_SESSION_VALIDATION_MODULE")

\* The uint48 bounds of a grant the model draws; -1 is not encodable.
ValidUntils == {-1, 100}

ValidAfters == {0}

\* _create_session_leaf: solidity_keccak of the tightly packed grant, which
\* raises on a value that is no uint48.
create_session_leaf(valid_until, valid_after, session_validation_module, sessionKeyData) ==
    IF valid_until < 0 \/ valid_after < 0
    THEN [err |-> "Exception", out |-> <<>>]
    ELSE [err |-> "",
          out |-> keccak(<<valid_until, valid_after, session_validation_module,
                           sessionKeyData>>)]

\* An add_leaf that appends its argument as it is.
leaf_entry_unhashed(leaf) == leaf

\* add_leaf: the element appended for an argument, keccak(leaf).
leaf_entry(leaf) == keccak(<<leaf>>)

\* The keyword arguments of a create_session call: all the keys the variant
\* requires, or all but session_key.
SessionKwargs(variant, complete) ==
    LET required == {RequiredKeys(variant)[i] : i \in 1..Len(RequiredKeys(variant))}
    IN  Kwargs(IF complete THEN required ELSE required \ {"session_key"},
               <<CHOOSE r \in Rules : r.offset = 0>>)

(***************************************************************************)
(* The parts of the state a specification does not use stay as constructed.*)
(***************************************************************************)
StoreIdle ==
    /\ leaves = <<>>
    /\ tree = <<>>
    /\ disk = [tree |-> <<>>, leaves |-> <<>>]
    /\ hashOrder = "asc"

CodecIdle ==
    /\ userop = DraftOp([a |-> 1, cs |-> TRUE, wf |-> TRUE], 0, <<>>, <<>>)
    /\ nChanges = 0

AccountIdle ==
    /\ account = NewAccount("key1", 0, FALSE, 1)
    /\ deployed = FALSE
    /\ balance = 0

WriterIdle ==
    /\ second = NotOpened
    /\ acked = {}

SessionIdle ==
    /\ manager = NoManager
    /\ files = [k \in ManagerAddresses |-> NoFile]

(***************************************************************************)
(* StoreSpec: one PersistentMerkleTree and its callers.                    *)
(***************************************************************************)
StoreInit ==
    /\ WriterIdle
    /\ CodecIdle
    /\ AccountIdle
    /\ SessionIdle
    /\ leaves = <<>>
    /\ tree = build_merkle_tree(<<>>)
    /\ disk = [tree |-> <<>>, leaves |-> <<>>]
    /\ hashOrder \in {"asc", "desc"}
    /\ ret = NoCall

\* add_leaf: append the hashed leaf, rebuild the tree, save the record.
AddLeaf ==
    \E leaf \in RawLeaves :
        /\ Idle
        /\ Len(leaves) < MaxLeaves
        /\ leaves' = Append(leaves, keccak(<<leaf>>))
        /\ tree' = build_merkle_tree(leaves')
        /\ disk' = save_tree(tree', leaves')
        /\ ret' = [op |-> "add_leaf", leaf |-> leaf]
        /\ UNCHANGED <<hashOrder, codecVars, accountVars, sessionVars, writerVars>>

ReadRoot ==
    /\ Idle
    /\ ret' = [op |-> "root", out |-> root]
    /\ UNCHANGED <<storeVars, codecVars, accountVars, sessionVars, writerVars>>

GetProof ==
    \E leaf \in RawLeaves :
        /\ Idle
        /\ ret' = [op |-> "get_proof", leaf |-> leaf,
                   err |-> try_get_proof(leaf).err, out |-> try_get_proof(leaf).out]
        /\ UNCHANGED <<storeVars, codecVars, accountVars, sessionVars, writerVars>>

VerifyProof ==
    \E leaf \in RawLeaves :
        \E proof \in ProofInputs(leaf) :
            /\ Idle
            /\ ret' = [op |-> "verify_proof", leaf |-> leaf, proof |-> proof,
                       out |-> verify_proof(leaf, proof)]
            /\ UNCHANGED <<storeVars, codecVars, accountVars, sessionVars, writerVars>>

\* The store is opened again (a new PersistentMerkleTree on the same
\* directory and address): the file exists, so tree and leaves are loaded.
Reopen ==
    /\ Idle
    /\ tree' = load_tree(disk).tree
    /\ leaves' = load_tree(disk).leaves
    /\ ret' = [op |-> "reopen"]
    /\ UNCHANGED <<disk, hashOrder, codecVars, accountVars, sessionVars, writerVars>>

StoreNext == AddLeaf \/ ReadRoot \/ GetProof \/ VerifyProof \/ Reopen \/ Return

StoreSpec == StoreInit /\ [][StoreNext]_vars

(***************************************************************************)
(* TwoWriterSpec: the store of an account, and a second store that another *)
(* process may open on the same directory and address. Each add_leaf runs  *)
(* to its end before the next one starts.                                  *)
(***************************************************************************)
\* How many leaves a store holds at most when two stores share a record.
MaxWrites == 3

\* add_leaf of the first store.
FirstAddLeaf ==
    \E leaf \in RawLeaves :
        /\ Idle
        /\ Len(leaves) < MaxWrites
        /\ leaves' = Append(leaves, keccak(<<leaf>>))
        /\ tree' = build_merkle_tree(leaves')
        /\ disk' = save_tree(tree', leaves')
        /\ acked' = acked \cup {keccak(<<leaf>>)}
        /\ ret' = [op |-> "add_leaf", writer |-> 1, leaf |-> leaf]
        /\ UNCHANGED <<second, hashOrder, codecVars, accountVars, sessionVars>>

\* PersistentMerkleTree(storage_dir, eth_address) in another process: the
\* file exists, tree and leaves are loaded from it.
SecondOpen ==
    /\ Idle
    /\ second = NotOpened
    /\ second' = [open |-> TRUE, tree |-> load_tree(disk).tree,
                  leaves |-> load_tree(disk).leaves]
    /\ ret' = [op |-> "open", writer |-> 2]
    /\ UNCHANGED <<storeVars, acked, codecVars, accountVars, sessionVars>>

\* add_leaf of the second store: it appends to the leaves it holds and
\* writes the record from them.
SecondAddLeaf ==
    \E leaf \in RawLeaves :
        /\ Idle
        /\ second.open
        /\ Len(second.leaves) < MaxWrites
        /\ LET ls == Append(second.leaves, keccak(<<leaf>>))
           IN  /\ second' = [open |-> TRUE, tree |-> build_merkle_tree(ls), leaves |-> ls]
               /\ disk' = save_tree(build_merkle_tree(ls), ls)
        /\ acked' = acked \cup {keccak(<<leaf>>)}
        /\ ret' = [op |-> "add_leaf", writer |-> 2, leaf |-> leaf]
        /\ UNCHANGED <<leaves, tree, hashOrder, codecVars, accountVars, sessionVars>>

TwoWriterInit ==
    /\ WriterIdle
    /\ CodecIdle
    /\ AccountIdle
    /\ SessionIdle
    /\ leaves = <<>>
    /\ tree = build_merkle_tree(<<>>)
    /\ disk = save_tree(tree, leaves)
    /\ hashOrder \in {"asc", "desc"}
    /\ ret = NoCall

TwoWriterNext == FirstAddLeaf \/ SecondOpen \/ SecondAddLeaf \/ Return

TwoWriterSpec == TwoWriterInit /\ [][TwoWriterNext]_vars

(***************************************************************************)
(* CrashSpec: add_leaf statement by statement, and a process that may stop *)
(* between any two statements and be started again on the same record.     *)
(***************************************************************************)
\* The file right after open(self.tree_file, 'wb'): it exists and is empty.
TruncatedFile == [truncated |-> TRUE]

\* _load_tree on a file: pickle.load raises EOFError on an empty file.
try_load_tree(file) ==
    IF file = TruncatedFile
    THEN [err |-> "EOFError", tree |-> <<>>, leaves |-> <<>>]
    ELSE [err |-> "", tree |-> load_tree(file).tree, leaves |-> load_tree(file).leaves]

\* self.leaves.append(keccak(leaf)); self.tree = self._build_merkle_tree(...)
AddLeafBuild ==
    \E leaf \in RawLeaves :
        /\ Idle
        /\ Len(leaves) < MaxLeaves
        /\ leaves' = Append(leaves, keccak(<<leaf>>))
        /\ tree' = build_merkle_tree(leaves')
        /\ ret' = [op |-> "add_leaf", pc |-> "built", leaf |-> leaf, before |-> leaves]
        /\ UNCHANGED <<disk, hashOrder, codecVars, accountVars, sessionVars, writerVars>>

\* _save_tree: with open(self.tree_file, 'wb') as f
SaveTreeOpen ==
    /\ ret.op = "add_leaf"
    /\ ret.pc = "built"
    /\ disk' = TruncatedFile
    /\ ret' = [ret EXCEPT !.pc = "opened"]
    /\ UNCHANGED <<leaves, tree, hashOrder, codecVars, accountVars, sessionVars, writerVars>>

\* _save_tree: pickle.dump((self.tree, self.leaves), f) and the close of f.
SaveTreeDump ==
    /\ ret.op = "add_leaf"
    /\ ret.pc = "opened"
    /\ disk' = save_tree(tree, leaves)
    /\ ret' = [ret EXCEPT !.pc = "done"]
    /\ UNCHANGED <<leaves, tree, hashOrder, codecVars, accountVars, sessionVars, writerVars>>

\* The process stops: between calls, or before, during or after the write of
\* an add_leaf. What it held in memory is gone, the file stays as it is.
ProcessStops ==
    /\ ret.op \in {"none", "add_leaf"}
    /\ leaves' = <<>>
    /\ tree' = <<>>
    /\ ret' = [op |-> "stopped", pc |-> "stopped",
               during |-> IF ret.op = "add_leaf" THEN ret.pc ELSE "idle",
               before |-> IF ret.op = "add_leaf" THEN ret.before ELSE leaves,
               after |-> leaves]
    /\ UNCHANGED <<disk, hashOrder, codecVars, accountVars, sessionVars, writerVars>>

\* A new process constructs the store on the same directory and address:
\* the file exists, so __init__ loads it; if the load raises there is no
\* store to call.
ReopenAfterStop ==
    /\ ret.op = "stopped"
    /\ LET r == try_load_tree(disk)
       IN  /\ tree' = r.tree
           /\ leaves' = r.leaves
           /\ ret' = [op |-> "reopened", err |-> r.err,
                      pc |-> IF r.err = "" THEN "done" ELSE "failed",
                      during |-> ret.during,
                      before |-> ret.before, after |-> ret.after]
    /\ UNCHANGED <<disk, hashOrder, codecVars, accountVars, sessionVars, writerVars>>

CrashNext ==
    \/ AddLeafBuild
    \/ SaveTreeOpen
    \/ SaveTreeDump
    \/ ProcessStops
    \/ ReopenAfterStop
    \/ Return

CrashSpec == StoreInit /\ [][CrashNext]_vars

(***************************************************************************)
(* LoadSpec: a PersistentMerkleTree constructed on a directory that holds  *)
(* a record for its address already. The record is a pickled pair          *)
(* (tree, leaves); its tree is the one built from its leaves, or one built  *)
(* from an earlier leaf sequence.                                          *)
(***************************************************************************)
LeafSequences == UNION {[1..n -> {keccak(<<l>>) : l \in RawLeaves}] : n \in 0..MaxLeaves}

Records ==
    {[tree |-> build_merkle_tree(SubSeq(l, 1, n)), leaves |-> l] :
        <<l, n>> \in {<<l, n>> \in LeafSequences \X (0..MaxLeaves) :
                         n \in {Len(l) - 1, Len(l)} /\ n >= 0}}

\* __init__ when os.path.exists(self.tree_file).
LoadInit ==
    /\ WriterIdle
    /\ CodecIdle
    /\ AccountIdle
    /\ SessionIdle
    /\ disk \in Records
    /\ tree = load_tree(disk).tree
    /\ leaves = load_tree(disk).leaves
    /\ hashOrder \in {"asc", "desc"}
    /\ ret = NoCall

LoadNext == AddLeaf \/ ReadRoot \/ Reopen \/ Return

LoadSpec == LoadInit /\ [][LoadNext]_vars

(***************************************************************************)
(* CodecSpec: one UserOperation, assigned to and run through the codec.    *)
(***************************************************************************)
CodecInit ==
    /\ WriterIdle
    /\ StoreIdle
    /\ AccountIdle
    /\ SessionIdle
    /\ \E s \in Addresses, n \in UintVals : userop = DraftOp(s, n, <<>>, <<>>)
    /\ nChanges = 0
    /\ ret = NoCall

\* An in-place attribute assignment, userop.<f> = v.
SetField ==
    \E f \in Fields :
        \E v \in FieldVals(f) :
            /\ Idle
            /\ nChanges < MaxChanges
            /\ v # userop[f]
            /\ userop' = [userop EXCEPT ![f] = v]
            /\ nChanges' = nChanges + 1
            /\ ret' = NoCall
            /\ UNCHANGED <<storeVars, accountVars, sessionVars, writerVars>>

Marshal ==
    /\ Idle
    /\ ret' = [op |-> "marshal_userop", out |-> marshal_userop(userop)]
    /\ UNCHANGED <<storeVars, codecVars, accountVars, sessionVars, writerVars>>

\* unmarshal_userop applied to the dictionary marshal_userop just returned.
Unmarshal ==
    /\ ret.op = "marshal_userop"
    /\ ret' = [op |-> "unmarshal_userop", in |-> ret.out, out |-> unmarshal_userop(ret.out)]
    /\ UNCHANGED <<storeVars, codecVars, accountVars, sessionVars, writerVars>>

Hash ==
    \E e \in Addresses, c \in ChainIds :
        /\ Idle
        /\ ret' = [op |-> "hash", ep |-> e, chain |-> c, out |-> hash(userop, e, c)]
        /\ UNCHANGED <<storeVars, codecVars, accountVars, sessionVars, writerVars>>

GasPrice ==
    \E b \in BaseFees :
        /\ Idle
        /\ ret' = [op |-> "gas_price", base |-> b, out |-> gas_price(userop, b)]
        /\ UNCHANGED <<storeVars, codecVars, accountVars, sessionVars, writerVars>>

CodecNext == SetField \/ Marshal \/ Unmarshal \/ Hash \/ GasPrice \/ Return

CodecSpec == CodecInit /\ [][CodecNext]_vars

(***************************************************************************)
(* ModuleSpec: calls of SessionValidationModule.create_session_key_data.   *)
(***************************************************************************)
ModuleInit ==
    /\ WriterIdle
    /\ StoreIdle
    /\ CodecIdle
    /\ AccountIdle
    /\ SessionIdle
    /\ ret = NoCall

CreateSessionKeyData ==
    \E variant \in SessionVariants, names \in SUBSET ParamNames, rules \in RuleLists :
        /\ Idle
        /\ "rules_list" \notin names => rules = <<>>
        /\ LET kwargs == Kwargs(names, rules)
               r == create_session_key_data(variant, kwargs)
           IN  ret' = [op |-> "create_session_key_data", variant |-> variant,
                       kwargs |-> kwargs, err |-> r.err, key |-> r.key, out |-> r.out]
        /\ UNCHANGED <<storeVars, codecVars, accountVars, sessionVars, writerVars>>

ModuleNext == CreateSessionKeyData \/ Return

ModuleSpec == ModuleInit /\ [][ModuleNext]_vars

(***************************************************************************)
(* Spec: one BiconomyV2SmartAccount, its caller, its collaborators and the *)
(* chain.                                                                  *)
(***************************************************************************)
\* The chains an account is constructed on; two of the chains have their own
\* entry point.
AccountChainIds == {137, 88888}

Recipients == {[a |-> 7, cs |-> TRUE, wf |-> TRUE], [a |-> 0, cs |-> FALSE, wf |-> FALSE]}

Amounts == {-1, 0, 1, 3}

Balances == {0, 2}

NonceKeys == {-1, 0}

\* The nonce argument of build_user_op: None, or an integer.
NonceArgs == {[given |-> FALSE, v |-> 0]} \cup [given : {TRUE}, v : {-1, 0, 5}]

Init ==
    /\ WriterIdle
    /\ StoreIdle
    /\ CodecIdle
    /\ SessionIdle
    /\ \E k \in PrivateKeys, i \in 0..MaxIndex, p \in BOOLEAN, c \in AccountChainIds :
           account = NewAccount(k, i, p, c)
    /\ deployed \in BOOLEAN
    /\ balance \in Balances
    /\ ret = NoCall

\* The outcome r of a call op(args) becomes the last call.
Called(op, args, r) ==
    ret' = [op |-> op, args |-> args, calls |-> r.calls, err |-> r.err,
            out |-> r.out, unparsed |-> r.unparsed]

SendEth ==
    \E recipient \in Recipients, amount_wei \in Amounts, nonce_key \in NonceKeys,
       answers \in Answers :
        /\ Idle
        /\ Called("send_eth",
                  [recipient |-> recipient, amount_wei |-> amount_wei,
                   nonce_key |-> nonce_key, code_present |-> deployed,
                   sa_balance |-> balance],
                  send_eth(account, recipient, amount_wei, nonce_key, deployed, balance,
                           answers))
        /\ UNCHANGED <<storeVars, codecVars, accountVars, sessionVars, writerVars>>

DeploySmartAccount ==
    \E nonce_key \in NonceKeys, answers \in Answers :
        /\ Idle
        /\ Called("deploy_smart_account",
                  [nonce_key |-> nonce_key, code_present |-> deployed],
                  deploy_smart_account(account, nonce_key, deployed, answers))
        /\ UNCHANGED <<storeVars, codecVars, accountVars, sessionVars, writerVars>>

BuildUserOp ==
    \E nonce \in NonceArgs, answers \in Answers :
        /\ Idle
        /\ Called("build_user_op", [nonce |-> nonce, est |-> answers.est],
                  build_user_op(account, nonce, <<>>, <<>>, answers))
        /\ UNCHANGED <<storeVars, codecVars, accountVars, sessionVars, writerVars>>

GetNonce ==
    \E key \in NonceKeys, answers \in Answers :
        /\ Idle
        /\ Called("get_nonce", [key |-> key],
                  get_nonce(account, key, answers))
        /\ UNCHANGED <<storeVars, codecVars, accountVars, sessionVars, writerVars>>

GetSmartAccountAddress ==
    /\ Idle
    /\ Called("get_smart_account_address", <<>>,
              Returned(<<>>,
                       get_smart_account_address(account.eoa_address,
                                                 account.validation_module, account.index),
                       {}))
    /\ UNCHANGED <<storeVars, codecVars, accountVars, sessionVars, writerVars>>

\* The caller constructs another account object; the chain has its own
\* state at the address of that account.
Construct ==
    \E private_key \in PrivateKeys, index \in (-1)..MaxIndex, has_paymaster \in BOOLEAN,
       rpc_chain_id \in AccountChainIds, bundler_chain_id \in AccountChainIds :
        LET r == BiconomyV2SmartAccount(private_key, index, has_paymaster,
                                        rpc_chain_id, bundler_chain_id)
        IN  /\ Idle
            /\ Called("BiconomyV2SmartAccount",
                      [index |-> index, rpc_chain_id |-> rpc_chain_id,
                       bundler_chain_id |-> bundler_chain_id], r)
            /\ IF r.err = ""
               THEN /\ account' = r.out
                    /\ deployed' \in BOOLEAN
                    /\ balance' \in Balances
               ELSE UNCHANGED accountVars
            /\ UNCHANGED <<storeVars, codecVars, sessionVars, writerVars>>

\* Bundler.send_userop called on its own, with an operation of the account.
BundlerSendUserop ==
    \E answer \in SendAnswers :
        /\ Idle
        /\ Called("Bundler.send_userop", [kind |-> answer],
                  send_userop(<<>>, DraftOp(account.smart_account_address, 0, <<>>, <<>>),
                              {}, answer))
        /\ UNCHANGED <<storeVars, codecVars, accountVars, sessionVars, writerVars>>

\* Bundler.estimate_userop_gas called on its own.
BundlerEstimateUseropGas ==
    \E answer \in EstimateAnswers :
        /\ Idle
        /\ Called("Bundler.estimate_userop_gas", [kind |-> answer.kind],
                  estimate_userop_gas(
                      <<Call("bundler", "eth_estimateUserOperationGas",
                             PartialView(DraftOp(account.smart_account_address, 0,
                                                 <<>>, <<>>)))>>,
                      answer))
        /\ UNCHANGED <<storeVars, codecVars, accountVars, sessionVars, writerVars>>

\* Paymaster.sponsor_user_operation called on its own.
PaymasterSponsorUserOperation ==
    \E answer \in SponsorAnswers :
        /\ Idle
        /\ account.paymaster
        /\ Called("Paymaster.sponsor_user_operation", [kind |-> answer.kind],
                  paymaster_sponsor_user_operation(
                      DraftOp(account.smart_account_address, 0, <<>>, <<>>), answer.kind))
        /\ UNCHANGED <<storeVars, codecVars, accountVars, sessionVars, writerVars>>

UseropHashes == {"0xh1"}

GetUseropStatus ==
    \E userop_hash \in UseropHashes, answer \in LookupAnswers :
        /\ Idle
        /\ Called("get_userop_status", [answer |-> answer],
                  get_userop_status(userop_hash, answer))
        /\ UNCHANGED <<storeVars, codecVars, accountVars, sessionVars, writerVars>>

GetUseropReceipt ==
    \E userop_hash \in UseropHashes, answer \in LookupAnswers :
        /\ Idle
        /\ Called("get_userop_receipt", [answer |-> answer],
                  get_userop_receipt(userop_hash, answer))
        /\ UNCHANGED <<storeVars, codecVars, accountVars, sessionVars, writerVars>>

GetUseropByHash ==
    \E userop_hash \in UseropHashes, answer \in LookupAnswers :
        /\ Idle
        /\ Called("get_userop_by_hash", [answer |-> answer],
                  get_userop_by_hash(userop_hash, answer))
        /\ UNCHANGED <<storeVars, codecVars, accountVars, sessionVars, writerVars>>

\* The chain: the account proxy gets deployed.
ChainDeploys ==
    /\ ~deployed
    /\ deployed' = TRUE
    /\ UNCHANGED <<storeVars, codecVars, account, balance, ret, sessionVars, writerVars>>

\* The chain: the balance of the account address changes.
ChainPays ==
    \E b \in Balances \ {balance} :
        /\ balance' = b
        /\ UNCHANGED <<storeVars, codecVars, account, deployed, ret, sessionVars, writerVars>>

Next ==
    \/ SendEth
    \/ DeploySmartAccount
    \/ BuildUserOp
    \/ GetNonce
    \/ GetSmartAccountAddress
    \/ Construct
    \/ BundlerSendUserop
    \/ BundlerEstimateUseropGas
    \/ PaymasterSponsorUserOperation
    \/ GetUseropStatus
    \/ GetUseropReceipt
    \/ GetUseropByHash
    \/ ChainDeploys
    \/ ChainPays
    \/ Return

Spec == Init /\ [][Next]_vars

(***************************************************************************)
(* SessionSpec: the managers a process constructs one after the other on   *)
(* one storage directory; leaves and tree are those of the merkle_tree of  *)
(* the live manager.                                                       *)
(***************************************************************************)
SessionInit ==
    /\ WriterIdle
    /\ StoreIdle
    /\ CodecIdle
    /\ AccountIdle
    /\ SessionIdle
    /\ ret = NoCall

\* SessionKeyManager(smart_account_address, session_key_storage_path)
NewSessionKeyManager ==
    \E smart_account_address \in ManagerAddresses, session_address \in SessionAddressReads :
        /\ Idle
        /\ IF session_address = Undefined
           THEN /\ ret' = [op |-> "SessionKeyManager",
                           smart_account_address |-> smart_account_address,
                           err |-> "AttributeError"]
                /\ UNCHANGED <<leaves, tree, manager, files>>
           ELSE LET opened == PersistentMerkleTree(files[session_address])
                IN  /\ leaves' = opened.leaves
                    /\ tree' = opened.tree
                    /\ files' = IF files[session_address] = NoFile
                                THEN [files EXCEPT ![session_address] =
                                          save_tree(opened.tree, opened.leaves)]
                                ELSE files
                    /\ manager' = [live |-> TRUE,
                                   smart_account_address |-> smart_account_address,
                                   eth_address |-> session_address]
                    /\ ret' = [op |-> "SessionKeyManager",
                               smart_account_address |-> smart_account_address,
                               err |-> ""]
        /\ UNCHANGED <<disk, hashOrder, codecVars, accountVars, writerVars>>

\* create_session up to and including merkle_tree.add_leaf(leaf); an
\* exception of any statement is raised again as Exception.
CreateSessionAdd ==
    \E valid_until \in ValidUntils, valid_after \in ValidAfters,
       variant \in SessionVariants, complete \in BOOLEAN :
        LET data == create_session_key_data(variant, SessionKwargs(variant, complete))
            made == create_session_leaf(valid_until, valid_after, get_address(variant),
                                        data.out)
            grant == [valid_until |-> valid_until, valid_after |-> valid_after,
                      variant |-> variant, complete |-> complete]
        IN  /\ Idle
            /\ manager.live
            /\ Len(leaves) < MaxSessions
            /\ IF data.err # "" \/ made.err # ""
               THEN /\ ret' = [op |-> "create_session", pc |-> "done", grant |-> grant,
                               err |-> "Exception", leaf |-> <<>>, root |-> <<>>]
                    /\ UNCHANGED <<leaves, tree, files>>
               ELSE /\ leaves' = Append(leaves, leaf_entry(made.out))
                    /\ tree' = build_merkle_tree(leaves')
                    /\ files' = [files EXCEPT ![manager.eth_address] = save_tree(tree', leaves')]
                    /\ ret' = [op |-> "create_session", pc |-> "added", grant |-> grant,
                               err |-> "", leaf |-> made.out, root |-> <<>>]
            /\ UNCHANGED <<manager, disk, hashOrder, codecVars, accountVars, writerVars>>

\* create_session from root = self.merkle_tree.root to return True.
CreateSessionRoot ==
    /\ ret.op = "create_session"
    /\ ret.pc = "added"
    /\ ret' = [ret EXCEPT !.pc = "done", !.root = root]
    /\ UNCHANGED <<storeVars, codecVars, accountVars, sessionVars, writerVars>>

\* merkle_tree.get_proof(leaf) for the leaf of a grant, on the live manager.
SessionProof ==
    \E valid_until \in ValidUntils \ {-1}, variant \in SessionVariants :
        LET leaf == create_session_leaf(valid_until, 0, get_address(variant),
                        create_session_key_data(variant, SessionKwargs(variant, TRUE)).out).out
        IN  /\ Idle
            /\ manager.live
            /\ ret' = [op |-> "session_proof", leaf |-> leaf,
                       err |-> try_get_proof(leaf).err, out |-> try_get_proof(leaf).out]
            /\ UNCHANGED <<storeVars, codecVars, accountVars, sessionVars, writerVars>>

\* The process ends, at any statement: its objects are gone, the files stay.
Crash ==
    /\ manager.live
    /\ manager' = NoManager
    /\ leaves' = <<>>
    /\ tree' = <<>>
    /\ ret' = NoCall
    /\ UNCHANGED <<files, disk, hashOrder, codecVars, accountVars, writerVars>>

SessionNext ==
    \/ NewSessionKeyManager
    \/ CreateSessionAdd
    \/ CreateSessionRoot
    \/ SessionProof
    \/ Crash
    \/ Return

SessionSpec == SessionInit /\ [][SessionNext]_vars

(***************************************************************************)
(* Claims about the store, checked under StoreSpec.                        *)
(***************************************************************************)
\* The last call was verify_proof on a stored leaf with the proof get_proof
\* generates for it in this very state.
VerifiedGenerated ==
    /\ ret.op = "verify_proof"
    /\ Stored(ret.leaf)
    /\ ret.proof = get_proof(ret.leaf)

\* C1: Merkle round-trip: for every stored leaf, verify_proof(leaf,
\* get_proof(leaf)) returns true against the current root.
C1_RoundTrip == VerifiedGenerated => ret.out = TRUE

\* The last call was verify_proof on a stored leaf whose generated proof is
\* non-empty, with that proof changed in exactly one element.
VerifiedOneChanged ==
    /\ ret.op = "verify_proof"
    /\ Stored(ret.leaf)
    /\ LET p == get_proof(ret.leaf)
       IN  /\ p # <<>>
           /\ Len(ret.proof) = Len(p)
           /\ Cardinality({i \in 1..Len(p) : ret.proof[i] # p[i]}) = 1

RootOfSingleLeaf == ret.op = "root" /\ Len(leaves) = 1

C4_RoundTrip ==
    ret.op = "unmarshal_userop" =>
        /\ ret.out.ok
        /\ \A f \in Fields : ret.out.op[f] = userop[f]

C4_Witness ==
    /\ ret.op = "unmarshal_userop"
    /\ ret.in = marshal_userop(userop)
    /\ userop.nonce = 256
    /\ \E f \in BytesFields : userop[f] = <<10, 255>>

\* The digests of the inputs that differ from the hashed one in field f of the
\* operation only.
DigestsChanging(f) ==
    {hash([userop EXCEPT ![f] = v], ret.ep, ret.chain) : v \in FieldVals(f) \ {userop[f]}}

\* The fields pack() encodes: all but the signature.
PackedFields == Fields \ {"signature"}

\* C5 as stated: the digest changes whenever exactly one field of op (any of
\* its fields), or only ep, or only chain, changes.
C5_EveryFieldChangesDigest ==
    ret.op = "hash" =>
        /\ \A f \in Fields : ret.out \notin DigestsChanging(f)
        /\ \A e \in Addresses \ {ret.ep} : hash(userop, e, ret.chain) # ret.out
        /\ \A c \in ChainIds \ {ret.chain} : hash(userop, ret.ep, c) # ret.out

\* C5 amended: the digest changes whenever exactly one of the ten packed
\* fields (every field but the signature) changes its value, or only the entry
\* point, or only the chain id, an address counting as changed when its
\* 20-byte value changes and not when only the letter case of its spelling
\* does; the signature is not part of the digest.
C5_PackedFieldChangesDigest ==
    ret.op = "hash" =>
        /\ \A f \in PackedFields \ {"sender"} : ret.out \notin DigestsChanging(f)
        /\ \A s \in Addresses :
               s.a # userop.sender.a =>
                   hash([userop EXCEPT !.sender = s], ret.ep, ret.chain) # ret.out
        /\ \A e \in Addresses : e.a # ret.ep.a => hash(userop, e, ret.chain) # ret.out
        /\ \A c \in ChainIds \ {ret.chain} : hash(userop, ret.ep, c) # ret.out
        /\ DigestsChanging("signature") = {ret.out}

C5_Witness ==
    /\ ret.op = "hash"
    /\ userop.call_data # <<>>
    /\ userop.max_fee_per_gas > 0

\* C6: effective gas price: max_fee_per_gas when the two fee bounds are equal,
\* otherwise the smaller of max_fee_per_gas and max_priority_fee_per_gas +
\* block_base_fee; never negative, never above max_fee_per_gas.
C6_GasPrice ==
    ret.op = "gas_price" =>
        LET mf == userop.max_fee_per_gas
            sum == userop.max_priority_fee_per_gas + ret.base
        IN  /\ ret.out >= 0
            /\ ret.out <= mf
            /\ mf = userop.max_priority_fee_per_gas => ret.out = mf
            /\ mf # userop.max_priority_fee_per_gas =>
                   /\ ret.out <= sum
                   /\ ret.out \in {mf, sum}

C6_Witness ==
    /\ ret.op = "gas_price"
    /\ userop.max_fee_per_gas # userop.max_priority_fee_per_gas
    /\ userop.max_priority_fee_per_gas + ret.base > userop.max_fee_per_gas
    /\ userop.max_fee_per_gas > 0

(***************************************************************************)
(* Claims about the session validation modules, checked under ModuleSpec.  *)
(***************************************************************************)
\* The last call was create_session_key_data without one of the variant's
\* required names.
CalledWithoutRequired ==
    /\ ret.op = "create_session_key_data"
    /\ \E i \in 1..Len(RequiredKeys(ret.variant)) :
           RequiredKeys(ret.variant)[i] \notin DOMAIN ret.kwargs

\* C8: a call that lacks a required name fails with an error naming the first
\* absent required key in the declared order and returns no payload; the ABI
\* variant called without rules_list alone fails naming rules_list.
C8_MissingParameter ==
    CalledWithoutRequired =>
        LET req == RequiredKeys(ret.variant)
        IN  /\ ret.err = "ValueError"
            /\ ret.out = <<>>
            /\ \E i \in 1..Len(req) :
                   /\ req[i] = ret.key
                   /\ req[i] \notin DOMAIN ret.kwargs
                   /\ \A j \in 1..(i - 1) : req[j] \in DOMAIN ret.kwargs
            /\ (/\ ret.variant = "ABI"
                /\ {"session_key", "permitted_contract", "permitted_selector",
                    "permitted_value_limit"} \subseteq DOMAIN ret.kwargs)
                   => ret.key = "rules_list"

C8_Witness ==
    /\ CalledWithoutRequired
    /\ ret.variant = "ABI"
    /\ DOMAIN ret.kwargs = {"session_key", "permitted_contract", "permitted_selector",
                            "permitted_value_limit"}
    /\ ret.key = "rules_list"

(***************************************************************************)
(* Claims about the account, checked under Spec.                           *)
(***************************************************************************)
\* C7: send_eth called with a transfer amount that is zero or negative
\* raises a precondition error (ValueError) before any request to the chain
\* node, the bundler or the paymaster is made by that call: the call logs no
\* request at all.
C7_NonPositiveAmount ==
    (ret.op = "send_eth" /\ ret.args.amount_wei <= 0)
        => (ret.err = "ValueError" /\ ret.calls = <<>>)

\* C7 happens where a later check would have reached the node: the amount is
\* zero, the recipient is an address and the account is deployed.
C7_Witness ==
    /\ ret.op = "send_eth"
    /\ ret.args.amount_wei = 0
    /\ ret.args.recipient.wf
    /\ deployed
    /\ ret.err = "ValueError"

\* The estimation answered with a result whose five numbers are positive.
EstimationSucceeded(est) ==
    /\ est.kind = "result"
    /\ \A f \in DOMAIN est.n : est.n[f] > 0

\* C9: build_user_op called with an explicit nonce on an account without a
\* paymaster, the bundler answering the estimation with positive numbers,
\* returns an operation with that nonce whose call gas limit, verification
\* gas limit, pre-verification gas, max fee and max priority fee are the
\* integers of the estimation response, and whose signature is empty.
C9_BuildFromEstimation ==
    (/\ ret.op = "build_user_op"
     /\ ret.args.nonce.given
     /\ ret.args.nonce.v >= 0
     /\ ~account.paymaster
     /\ EstimationSucceeded(ret.args.est))
        => /\ ret.err = ""
           /\ ret.out.nonce = ret.args.nonce.v
           /\ ret.out.call_gas_limit = ret.args.est.n.callGasLimit
           /\ ret.out.verification_gas_limit = ret.args.est.n.verificationGasLimit
           /\ ret.out.pre_verification_gas = ret.args.est.n.preVerificationGas
           /\ ret.out.max_fee_per_gas = ret.args.est.n.maxFeePerGas
           /\ ret.out.max_priority_fee_per_gas = ret.args.est.n.maxPriorityFeePerGas
           /\ ret.unparsed = {}
           /\ ret.out.signature = <<>>

\* C10: get_smart_account_address returns, at every call (before and after
\* deployment, whatever was called before), the address derived at
\* construction from (EOA address, validation module, index), without a
\* request to any collaborator; an account that differs only in index
\* derives a different address.
C10_AddressDeterminism ==
    ret.op = "get_smart_account_address"
        => /\ ret.out = account.smart_account_address
           /\ ret.calls = <<>>
           /\ \A j \in 0..(MaxIndex + 1) :
                  j # account.index
                      => get_smart_account_address(account.eoa_address,
                                                   account.validation_module, j) # ret.out

\* C10 happens after deployment, on an account of index above zero.
C10_Witness ==
    /\ ret.op = "get_smart_account_address"
    /\ deployed
    /\ account.index > 0
    /\ ret.out = account.smart_account_address

\* The requests of the last call that went to the bundler or the paymaster.
RelayRequests == {i \in 1..Len(ret.calls) : ret.calls[i].to \in {"bundler", "paymaster"}}

\* The three conditions send_eth puts on a transfer.
TransferAllowed(args) ==
    /\ args.recipient.wf
    /\ args.amount_wei > 0
    /\ args.amount_wei <= args.sa_balance

\* C11: send_eth issues a gas-estimation, sponsorship or submission request
\* only if the recipient is a valid address, the amount is strictly positive
\* and the amount does not exceed the balance of the account; if one of the
\* three fails the call raises and no request reaches the bundler or the
\* paymaster.
C11_TransferGuards ==
    ret.op = "send_eth"
        => /\ RelayRequests # {} => TransferAllowed(ret.args)
           /\ ~TransferAllowed(ret.args) => (ret.err # "" /\ RelayRequests = {})

\* C11 happens both ways: a transfer above the balance of a deployed account
\* is refused after the balance was read, and an allowed one is submitted.
C11_WitnessRefused ==
    /\ ret.op = "send_eth"
    /\ ret.args.recipient.wf
    /\ ret.args.code_present
    /\ ret.args.amount_wei > ret.args.sa_balance
    /\ ret.args.sa_balance > 0
    /\ ret.err = "ValueError"
    /\ Len(ret.calls) = 2

C11_Witness ==
    /\ ret.op = "send_eth"
    /\ TransferAllowed(ret.args)
    /\ \E i \in RelayRequests : ret.calls[i].method = "eth_sendUserOperation"

\* C12: send_eth reaches the bundler only when code is present at the
\* account address and deploy_smart_account only when none is; in the
\* opposite deployment state each raises without a request to the bundler or
\* the paymaster.
C12_DeploymentGuard ==
    /\ ret.op = "send_eth"
           => /\ RelayRequests # {} => ret.args.code_present
              /\ (TransferAllowed(ret.args) /\ ~ret.args.code_present)
                     => (ret.err = "Exception" /\ RelayRequests = {})
    /\ ret.op = "deploy_smart_account"
           => /\ RelayRequests # {} => ~ret.args.code_present
              /\ ret.args.code_present => (ret.err = "Exception" /\ RelayRequests = {})

\* C12 happens: a deployment is refused on a deployed account.
C12_Witness ==
    /\ ret.op = "deploy_smart_account"
    /\ ret.args.code_present
    /\ ret.err = "Exception"
    /\ ret.calls = <<IsDeployedCall(account)>>

\* The last call received a negative index or a negative nonce key, and
\* nothing else it received or read is a reason to raise.
NegativeIndexOrKey ==
    \/ /\ ret.op = "BiconomyV2SmartAccount"
       /\ ret.args.index < 0
       /\ ret.args.rpc_chain_id = ret.args.bundler_chain_id
    \/ /\ ret.op = "send_eth"
       /\ ret.args.nonce_key < 0
       /\ TransferAllowed(ret.args)
       /\ ret.args.code_present
    \/ /\ ret.op = "deploy_smart_account"
       /\ ret.args.nonce_key < 0
       /\ ~ret.args.code_present
    \/ /\ ret.op = "get_nonce"
       /\ ret.args.key < 0

\* C13: a negative account index at construction, or a negative nonce key in
\* send_eth, deploy_smart_account or get_nonce, is rejected with a
\* precondition error before the operation that receives it makes any
\* request to the chain node, the bundler or the paymaster.
C13_NegativeRejectedFirst ==
    NegativeIndexOrKey => (ret.err = "ValueError" /\ ret.calls = <<>>)

(***************************************************************************)
(* Further claims about the store, checked under StoreSpec.                *)
(***************************************************************************)
IsPrefix(s, t) == Len(s) <= Len(t) /\ SubSeq(t, 1, Len(s)) = s

\* C14: across add_leaf, root, get_proof, verify_proof and reopening the
\* store, the leaf sequence after a step has the sequence before it as a
\* prefix (hence every earlier one); add_leaf extends it by exactly one
\* element at the end, root, get_proof and verify_proof leave it unchanged.
C14_AppendOnly ==
    [][/\ IsPrefix(leaves, leaves')
       /\ ret'.op = "add_leaf" => Len(leaves') = Len(leaves) + 1
       /\ ret'.op \in {"root", "get_proof", "verify_proof"} => leaves' = leaves]_vars

\* C14 happens: a store holding several leaves was reopened.
C14_Witness ==
    /\ ret.op = "reopen"
    /\ Len(leaves) >= 2
    /\ leaves = disk.leaves

\* C16: get_proof for a leaf that is not in the leaf sequence raises a
\* not-found error (ValueError) instead of returning a proof, and leaves the
\* in-memory leaf sequence, the tree and the persisted record unchanged.
C16_UnknownLeaf ==
    [][(ret'.op = "get_proof" /\ ~Stored(ret'.leaf))
           => /\ ret'.err = "ValueError"
              /\ ret'.out = <<>>
              /\ UNCHANGED <<leaves, tree, disk>>]_vars

\* C16 happens: a proof was asked of a store with leaves for a leaf it does
\* not hold.
C16_Witness ==
    /\ ret.op = "get_proof"
    /\ ~Stored(ret.leaf)
    /\ Len(leaves) >= 2
    /\ ret.err = "ValueError"

(***************************************************************************)
(* Claims about the session manager, checked under SessionSpec.            *)
(***************************************************************************)
\* The step of create_session that reads the root for publication.
RootRead ==
    /\ ret.op = "create_session"
    /\ ret'.op = "create_session"
    /\ ret.pc = "added"
    /\ ret'.pc = "done"

C17_StorePerAccount ==
    ret.op = "SessionKeyManager"
        => /\ ret.err = ""
           /\ manager.live
           /\ manager.smart_account_address = ret.smart_account_address
           /\ manager.eth_address = ret.smart_account_address
           /\ files[ret.smart_account_address] # NoFile
           /\ leaves = files[ret.smart_account_address].leaves

\* C18: after create_session succeeds for a grant, the element appended to
\* the leaf sequence is exactly the grant's leaf, the hash of the tightly
\* packed (valid_until, valid_after, sub-module address, session key data),
\* with no further hashing.
C18_LeafAppendedAsIs ==
    (ret.op = "create_session" /\ ret.err = "")
        => /\ ret.leaf = keccak(<<ret.grant.valid_until, ret.grant.valid_after,
                                  get_address(ret.grant.variant),
                                  SessionKeyData(ret.grant.variant,
                                      SessionKwargs(ret.grant.variant, TRUE))>>)
           /\ leaves # <<>>
           /\ leaves[Len(leaves)] = ret.leaf

(***************************************************************************)
(* Further claims about the account and its collaborators, checked under   *)
(* Spec.                                                                   *)
(***************************************************************************)
CollaboratorMethods ==
    {"Bundler.send_userop", "Bundler.estimate_userop_gas",
     "Paymaster.sponsor_user_operation"}

\* C19: whenever a collaborator answers a request with a non-2xx response
\* or with a JSON-RPC error object, the Bundler or Paymaster method that
\* made the request fails with an error instead of returning a value; and
\* send_userop returns a value only when it is the operation hash of a
\* successful submission.
C19_FailurePropagation ==
    /\ (ret.op \in CollaboratorMethods /\ ret.args.kind \in {"http_error", "error"})
           => ret.err # ""
    /\ (ret.op = "Bundler.send_userop" /\ ret.err = "")
           => ret.out = [kind |-> "userop hash"]

\* The methods of the requests of the last call to bundler and paymaster, in
\* the order they were made.
RECURSIVE RelayMethods(_)
RelayMethods(calls) ==
    IF calls = <<>> THEN <<>>
    ELSE IF Head(calls).to \in {"bundler", "paymaster"}
         THEN <<Head(calls).method>> \o RelayMethods(Tail(calls))
         ELSE RelayMethods(Tail(calls))

\* The order of a complete lifecycle for the account.
Lifecycle ==
    <<"eth_estimateUserOperationGas">>
        \o (IF account.paymaster THEN <<"pm_sponsorUserOperation">> ELSE <<>>)
        \o <<"eth_sendUserOperation">>

\* C20: in every send_eth and deploy_smart_account the requests to bundler
\* and paymaster occur in the order gas estimation, sponsorship (only with a
\* paymaster), submission; the signing (which reads the chain id from the
\* node) lies after the last estimation or sponsorship request and before
\* the submission; and the submitted operation carries neither the
\* placeholder signature nor an empty one, but the signature of the account
\* over the digest of the submitted field values, entry point and chain id.
C20_LifecycleOrder ==
    ret.op \in {"send_eth", "deploy_smart_account"}
        => /\ IsPrefix(RelayMethods(ret.calls), Lifecycle)
           /\ \A i \in 1..Len(ret.calls) :
                  ret.calls[i].method = "eth_sendUserOperation"
                      => LET o == ret.calls[i].arg
                         IN  /\ i > 1
                             /\ ret.calls[i - 1] = ChainIdCall
                             /\ o.signature # <<>>
                             /\ o.signature
                                    # ModuleSignature(account, Constant("DUMMY_DATA_HASH"))
                             /\ o.signature
                                    = ModuleSignature(account,
                                          hash(o, EntryPoint(account.chain_id),
                                               account.chain_id))

\* C20 happens: a sponsored transfer went through estimation, sponsorship,
\* signing and submission.
C20_Witness ==
    /\ ret.op = "send_eth"
    /\ account.paymaster
    /\ ret.err = ""
    /\ RelayMethods(ret.calls) = Lifecycle
    /\ ret.out = [kind |-> "userop hash"]

\* The sponsorship requests of the last call.
SponsorRequests ==
    {i \in 1..Len(ret.calls) : ret.calls[i].method = "pm_sponsorUserOperation"}

\* The request object carries the five numbers n under the attribute names
\* of an operation.
CarriesGasNumbers(arg, n) ==
    /\ {"call_gas_limit", "verification_gas_limit", "pre_verification_gas",
        "max_fee_per_gas", "max_priority_fee_per_gas"} \subseteq DOMAIN arg
    /\ arg.call_gas_limit = n.callGasLimit
    /\ arg.verification_gas_limit = n.verificationGasLimit
    /\ arg.pre_verification_gas = n.preVerificationGas
    /\ arg.max_fee_per_gas = n.maxFeePerGas
    /\ arg.max_priority_fee_per_gas = n.maxPriorityFeePerGas

\* C21: with a paymaster configured, the sponsorship request that
\* build_user_op issues carries the gas numbers of the preceding estimation
\* (the three gas limits and the two fee values): the sponsor sees the
\* estimated operation.
C21_SponsorSeesEstimates ==
    (ret.op = "build_user_op" /\ account.paymaster)
        => \A i \in SponsorRequests : CarriesGasNumbers(ret.calls[i].arg, ret.args.est.n)

\* C22: in the operation build_user_op returns, with a paymaster
\* paymaster_and_data and the three gas limits are the sponsor's values and
\* the two fee values are those of the estimation; without a paymaster no
\* sponsorship request is made, paymaster_and_data is empty and the three
\* gas limits are those of the estimation.
C22_SponsorAuthority ==
    (ret.op = "build_user_op" /\ ret.err = "")
        => /\ ret.out.max_fee_per_gas = ret.args.est.n.maxFeePerGas
           /\ ret.out.max_priority_fee_per_gas = ret.args.est.n.maxPriorityFeePerGas
           /\ IF account.paymaster
              THEN /\ Cardinality(SponsorRequests) = 1
                   /\ ret.out.paymaster_and_data = SponsorNumbers.paymasterAndData
                   /\ ret.out.pre_verification_gas = SponsorNumbers.preVerificationGas
                   /\ ret.out.verification_gas_limit = SponsorNumbers.verificationGasLimit
                   /\ ret.out.call_gas_limit = SponsorNumbers.callGasLimit
              ELSE /\ SponsorRequests = {}
                   /\ ret.out.paymaster_and_data = <<>>
                   /\ ret.out.pre_verification_gas = ret.args.est.n.preVerificationGas
                   /\ ret.out.verification_gas_limit = ret.args.est.n.verificationGasLimit
                   /\ ret.out.call_gas_limit = ret.args.est.n.callGasLimit

\* C22 happens: a sponsored operation was built.
C22_Witness ==
    /\ ret.op = "build_user_op"
    /\ ret.err = ""
    /\ account.paymaster
    /\ SponsorRequests # {}
    /\ ret.out.call_gas_limit # ret.args.est.n.callGasLimit

\* C24: every numeric value a collaborator returns as a hex string is
\* converted to the integer it denotes before it is returned or stored in
\* an operation: an estimation answered in hex strings makes build_user_op
\* (without a paymaster, with a nonce that is encodable) return an operation
\* holding the five integers, and no operation build_user_op returns holds
\* an unparsed string.
C24_HexParsed ==
    /\ (/\ ret.op = "build_user_op"
        /\ ~account.paymaster
        /\ ret.args.nonce.given => ret.args.nonce.v >= 0
        /\ ret.args.est.kind = "result"
        /\ ret.args.est.limits = "hex"
        /\ ret.args.est.fees = "hex")
           => /\ ret.err = ""
              /\ ret.out.call_gas_limit = ret.args.est.n.callGasLimit
              /\ ret.out.max_fee_per_gas = ret.args.est.n.maxFeePerGas
    /\ (ret.op = "build_user_op" /\ ret.err = "") => ret.unparsed = {}

\* C25: every UserOperation satisfies, after the in-place updates of
\* estimation and sponsorship as at construction, that sender is a valid
\* address, nonce and the five gas and fee fields are non-negative
\* integers, and the four byte fields are byte strings.
C25_Encodable ==
    (ret.op = "build_user_op" /\ ret.err = "")
        => /\ check_encodability(ret.out)
           /\ \A f \in UintFields : f \notin ret.unparsed

LookupOperations == {"get_userop_status", "get_userop_receipt", "get_userop_by_hash"}

AccountOperations ==
    {"send_eth", "deploy_smart_account", "build_user_op", "get_nonce",
     "get_smart_account_address"} \cup LookupOperations

\* C23: in one invocation of a public account operation each request to
\* bundler or paymaster (estimation, sponsorship, submission, status,
\* receipt, lookup) is issued at most once, whether it succeeds or fails;
\* get_userop_status, get_userop_receipt and get_userop_by_hash issue
\* exactly one request and return its result as it is, a pending status
\* included.
C23_NoRetry ==
    /\ ret.op \in AccountOperations
           => \A i, j \in 1..Len(RelayMethods(ret.calls)) :
                  RelayMethods(ret.calls)[i] = RelayMethods(ret.calls)[j] => i = j
    /\ ret.op \in LookupOperations
           => /\ Len(ret.calls) = 1
              /\ (ret.err = "" /\ ret.args.answer.kind = "result")
                     => ret.out = [kind |-> "result", value |-> ret.args.answer.value]

\* C23 happens: the status of a pending operation was read.
C23_Witness ==
    /\ ret.op = "get_userop_status"
    /\ ret.args.answer.kind = "result"
    /\ ret.args.answer.value = "PENDING"
    /\ ret.out.value = "PENDING"

\* The rule lists that hold the same rules as rules in another order.
Reorderings(rules) ==
    {other \in [1..Len(rules) -> Rules] :
        /\ other # rules
        /\ \E perm \in [1..Len(rules) -> 1..Len(rules)] :
               /\ \A i, j \in 1..Len(rules) : perm[i] = perm[j] => i = j
               /\ \A i \in 1..Len(rules) : other[i] = rules[perm[i]]}

\* The fixed-size record of one rule.
RuleRecord(rule) ==
    <<[uint |-> rule.offset], [uint |-> rule.condition], [bytes32 |-> rule.value]>>

\* C26: the ABI payload is the five-entry header, whose last entry is the
\* number of rules, followed by one record per rule in the order of
\* rules_list; reordering the rules so that some position differs gives
\* another payload and another leaf; the ERC20 payload is its four values
\* and no rule record.
C26_AbiPayload ==
    (ret.op = "create_session_key_data" /\ ret.err = "") =>
        IF ret.variant = "ABI"
        THEN LET rules == ret.kwargs["rules_list"]
             IN  /\ Len(ret.out) = 5 + 3 * Len(rules)
                 /\ SubSeq(ret.out, 1, 4)
                        = <<ret.kwargs["session_key"], ret.kwargs["permitted_contract"],
                            ret.kwargs["permitted_selector"],
                            ret.kwargs["permitted_value_limit"]>>
                 /\ ret.out[5] = [uint |-> Len(rules)]
                 /\ \A i \in 1..Len(rules) :
                        SubSeq(ret.out, 3 + 3 * i, 5 + 3 * i) = RuleRecord(rules[i])
                 /\ \A other \in Reorderings(rules) :
                        LET r == create_session_key_data(
                                     "ABI", [ret.kwargs EXCEPT !["rules_list"] = other])
                        IN  /\ r.err = ""
                            /\ r.out # ret.out
                            /\ create_session_leaf(100, 0, "abi_svm", r.out)
                                   # create_session_leaf(100, 0, "abi_svm", ret.out)
        ELSE /\ ret.out = <<ret.kwargs["session_key"], ret.kwargs["token"],
                            ret.kwargs["recipient"], ret.kwargs["max_amount"]>>
             /\ \A i \in 1..Len(ret.out) : "bytes32" \notin DOMAIN ret.out[i]

\* C26 happens: an ABI payload was built from two different rules.
C26_Witness ==
    /\ ret.op = "create_session_key_data"
    /\ ret.err = ""
    /\ ret.variant = "ABI"
    /\ Len(ret.kwargs["rules_list"]) = 2
    /\ ret.kwargs["rules_list"][1] # ret.kwargs["rules_list"][2]
    /\ Len(ret.out) = 11

\* The reduction of a level to its root: neighbours are hashed in pairs, the
\* last node of a level of odd length is paired with itself.
RECURSIVE Reduction(_)
Reduction(level) ==
    IF level = <<>> THEN EmptyBytes
    ELSE IF Len(level) = 1 THEN level[1]
    ELSE Reduction([i \in 1..((Len(level) + 1) \div 2) |->
                       keccak(<<level[2 * i - 1],
                                IF 2 * i <= Len(level) THEN level[2 * i]
                                ELSE level[2 * i - 1]>>)])

C28_CrashAtomic ==
    ret.op = "reopened" =>
        /\ ret.err = ""
        /\ leaves \in {ret.before, ret.after}
        /\ tree = build_merkle_tree(leaves)

Persisted == {disk.leaves[i] : i \in 1..Len(disk.leaves)}

\* C29: a store writes the record from the leaves it holds and checks
\* neither a lock nor the persisted length, so with two stores open on one
\* record a leaf whose add_leaf returned in one can be missing from the
\* record after an add_leaf of the other; with one store per account every
\* leaf whose add_leaf returned is in the record.
C29_SingleWriter ==
    /\ ~second.open => acked \subseteq Persisted
    /\ ret.op = "add_leaf"
           => disk.leaves = IF ret.writer = 1 THEN leaves ELSE second.leaves

\* C29 happens: an add_leaf of the second store has returned and a leaf that
\* the first store appended is no longer in the record.
C29_Witness ==
    /\ second.open
    /\ ret.op = "add_leaf"
    /\ ret.writer = 2
    /\ \E i \in 1..Len(leaves) : leaves[i] \in acked /\ leaves[i] \notin Persisted

====
